---------------------------- MODULE Spec2Model ----------------------------
(***************************************************************************)
(* NailVault: the client-side state tree (reducer), the settings           *)
(* normalizer and the cloud-sync hook (useCloudSync) of the single-file    *)
(* React application, as a state machine.                                  *)
(*                                                                         *)
(* JavaScript values are tagged records, so that the coercions the code    *)
(* performs (Number, String, trim, ??, ||, Math.max, Array.from) are       *)
(* computed and not assumed.  Strings are sequences of one-character       *)
(* strings.  Numbers are kept in halves (Num(5) is 2.5), which is enough   *)
(* to tell an integer from a non-integer; NaN is a value of its own.       *)
(***************************************************************************)
EXTENDS Integers, Sequences, FiniteSets, TLC

(***************************************************************************)
(* JavaScript values                                                       *)
(***************************************************************************)
Undef == [t |-> "undefined"]
Null == [t |-> "null"]
NaN == [t |-> "NaN"]
Num(h) == [t |-> "num", halves |-> h]
Int2Num(i) == Num(2 * i)
Str(cs) == [t |-> "str", s |-> cs]
Arr(a) == [t |-> "arr", a |-> a]
Obj(o) == [t |-> "obj", o |-> o]

DigitChars == <<"0", "1", "2", "3", "4", "5", "6", "7", "8", "9">>
Letters == <<"A", "B", "C", "D", "E", "F", "G", "H", "I", "J", "K", "L", "M",
             "N", "O", "P", "Q", "R", "S", "T", "U", "V", "W", "X", "Y", "Z">>

IsDigit(c) == \E i \in 1..10 : DigitChars[i] = c
DigitVal(c) == (CHOOSE i \in 1..10 : DigitChars[i] = c) - 1

\* String.prototype.trim over the alphabet of the model (the only white
\* space character is " ").
RECURSIVE TrimLeft(_)
TrimLeft(cs) == IF cs # <<>> /\ Head(cs) = " " THEN TrimLeft(Tail(cs)) ELSE cs
RECURSIVE TrimRight(_)
TrimRight(cs) ==
  IF cs # <<>> /\ cs[Len(cs)] = " " THEN TrimRight(SubSeq(cs, 1, Len(cs) - 1)) ELSE cs
Trim(cs) == TrimRight(TrimLeft(cs))

\* Decimal digits of a natural number (template literal / String(n)).
RECURSIVE NatToStr(_)
NatToStr(n) == IF n < 10 THEN <<DigitChars[n + 1]>>
               ELSE NatToStr(n \div 10) \o <<DigitChars[(n % 10) + 1]>>

RECURSIVE DigitsToNat(_, _)
DigitsToNat(cs, acc) ==
  IF cs = <<>> THEN acc ELSE DigitsToNat(Tail(cs), 10 * acc + DigitVal(Head(cs)))

\* Number(string): white space is trimmed, the empty string is 0, a run of
\* decimal digits is its value, anything else over the model's alphabet
\* (letters, space, digits) is NaN.
StrToNumber(cs) ==
  LET t == Trim(cs) IN
  IF t = <<>> THEN Int2Num(0)
  ELSE IF \A i \in 1..Len(t) : IsDigit(t[i]) THEN Int2Num(DigitsToNat(t, 0))
  ELSE NaN

\* Number(x) for the kinds of value a count can hold.
ToNumber(x) ==
  CASE x.t = "undefined" -> NaN
    [] x.t = "null" -> Int2Num(0)
    [] x.t = "NaN" -> NaN
    [] x.t = "num" -> x
    [] x.t = "str" -> StrToNumber(x.s)

\* a ?? b
Coalesce(a, b) == IF a.t \in {"undefined", "null"} THEN b ELSE a

\* s?.f
Get(s, f) == IF s.t = "obj" /\ f \in DOMAIN s.o THEN s.o[f] ELSE Undef

\* Math.max(1, x): NaN when x is NaN.
MathMax1(x) == IF x.t = "NaN" THEN NaN
               ELSE IF x.halves < 2 THEN Int2Num(1) ELSE x

\* ToLength of Array.from({ length }): NaN is 0, a fraction is truncated.
ToLength(x) == IF x.t = "NaN" THEN 0
               ELSE IF x.halves < 0 THEN 0 ELSE x.halves \div 2

\* JavaScript truthiness.
Truthy(x) ==
  CASE x.t \in {"undefined", "null", "NaN"} -> FALSE
    [] x.t = "num" -> x.halves # 0
    [] x.t = "str" -> x.s # <<>>
    [] OTHER -> TRUE

\* String(x) for a truthy string or number.
ToStr(x) ==
  CASE x.t = "str" -> x.s
    [] x.t = "num" ->
         IF x.halves % 2 = 0 /\ x.halves >= 0 THEN NatToStr(x.halves \div 2)
         ELSE IF x.halves >= 0 THEN NatToStr(x.halves \div 2) \o <<".", "5">>
         ELSE <<"-">> \o NatToStr((0 - x.halves) \div 2)
                \o (IF x.halves % 2 = 0 THEN <<>> ELSE <<".", "5">>)

\* a[i] with a zero-based index: undefined past the end.
At(a, i) == IF i < Len(a) THEN a[i + 1] ELSE Undef

(***************************************************************************)
(* Settings normalizer                                                     *)
(***************************************************************************)
labelForIndex(i) == IF i < 26 THEN <<Letters[i + 1]>> ELSE <<"W">> \o NatToStr(i + 1)

defaultWallNames(count) == [i \in 1..ToLength(count) |-> Str(labelForIndex(i - 1))]

\* The colour theme "vivid" is abbreviated to its first letter.
normalizeSettings(s) ==
  LET wallCount == MathMax1(ToNumber(Coalesce(Get(s, "wallCount"), Int2Num(2))))
      shelvesPerWall == MathMax1(ToNumber(Coalesce(Get(s, "shelvesPerWall"), Int2Num(8))))
      slotsPerShelf == MathMax1(ToNumber(Coalesce(Get(s, "slotsPerShelf"), Int2Num(21))))
      existing == IF Get(s, "wallNames").t = "arr" THEN Get(s, "wallNames").a
                  ELSE defaultWallNames(wallCount)
      name(i) == IF Truthy(At(existing, i)) /\ Trim(ToStr(At(existing, i))) # <<>>
                 THEN Str(Trim(ToStr(At(existing, i))))
                 ELSE Str(labelForIndex(i))
  IN [colorTheme |-> Coalesce(Get(s, "colorTheme"), Str(<<"v">>)),
      wallCount |-> wallCount,
      shelvesPerWall |-> shelvesPerWall,
      slotsPerShelf |-> slotsPerShelf,
      wallNames |-> Arr([i \in 1..ToLength(wallCount) |-> name(i - 1)]),
      syncKey |-> IF Get(s, "syncKey").t = "str" THEN Get(s, "syncKey") ELSE Str(<<>>)]

(***************************************************************************)
(* Bounds of the model                                                     *)
(***************************************************************************)
\* Listener groups (activations of the subscribe effect) that can exist.
MaxGroups == 2
\* Outbound pushes (runs of the mirror effect) in flight.
MaxPushes == 2
\* Snapshots a listener has received and not yet handed to its callback;
\* a further one replaces the newest.
MaxQueue == 1

(***************************************************************************)
(* Domain data                                                             *)
(***************************************************************************)
Names == <<"polishes", "tools", "manis">>
NameSet == {"polishes", "tools", "manis"}
ListenerNames == <<"polishes", "tools", "manis", "meta">>
ListenerNameSet == NameSet \cup {"meta"}

\* Household keys: the text typed into the key field (already trimmed by
\* the field's onChange) and the rooms they name.
KeyHome == <<"H">>
KeyWork == <<"W">>
Rooms == {KeyHome, KeyWork}
UIKeys == {<<>>, KeyHome, KeyWork}

\* Record identifiers in document order; "" is a record without an id.
IdOrder == <<"", "m1", "p1", "p2", "t1">>
IdsOf == [polishes |-> {"p1", "p2"}, tools |-> {"t1"}, manis |-> {"m1"}]
Values == {0, 1}
Rec(id, v) == [id |-> id, v |-> v]
IdRank(id) == CHOOSE i \in 1..Len(IdOrder) : IdOrder[i] = id

\* { ...a, ...b }
Merge(a, b) == [f \in (DOMAIN a) \cup (DOMAIN b) |-> IF f \in DOMAIN b THEN b[f] ELSE a[f]]

defaultSettings ==
  [wallCount |-> Int2Num(2), shelvesPerWall |-> Int2Num(8), slotsPerShelf |-> Int2Num(21),
   wallNames |-> Arr(<<Str(<<"A">>), Str(<<"B">>)>>), colorTheme |-> Str(<<"v">>),
   syncKey |-> Str(<<>>)]

\* createdAt is Date.now() at module load; 1 stands for that instant.
initialState ==
  [polishes |-> <<>>, tools |-> <<>>, manis |-> <<>>, settings |-> defaultSettings,
   createdAt |-> 1]

(***************************************************************************)
(* Domain reducer                                                          *)
(***************************************************************************)
\* An add that would put the record last.
AddLast(coll, payload) == Append(coll, payload)

\* [action.payload, ...coll]
AddFirst(coll, payload) == <<payload>> \o coll

\* An update that would add the record when no record has its id.
MapUpdateOrInsert(coll, payload) ==
  IF \E i \in 1..Len(coll) : coll[i].id = payload.id
  THEN [i \in 1..Len(coll) |-> IF coll[i].id = payload.id THEN Merge(coll[i], payload) ELSE coll[i]]
  ELSE Append(coll, payload)

MapUpdate(coll, payload) ==
  [i \in 1..Len(coll) |-> IF coll[i].id = payload.id THEN Merge(coll[i], payload) ELSE coll[i]]

FilterOut(coll, id) == SelectSeq(coll, LAMBDA r : r.id # id)

\* A reducer that would start over from initialState on a partial hydrate.
HydratePartialFromInitial(state, payload) == Merge(initialState, payload)

\* A reducer that would add a snapshot's records to those it has.
HydratePartialAppend(state, payload) ==
  [f \in (DOMAIN state) \cup (DOMAIN payload) |->
     IF f \notin DOMAIN payload THEN state[f]
     ELSE IF f \in NameSet /\ f \in DOMAIN state THEN state[f] \o payload[f]
     ELSE payload[f]]

HydratePartial(state, payload) == Merge(state, payload)

reducer(state, action) ==
  CASE action.type = "hydrate" -> action.payload
    [] action.type = "hydrate/partial" -> HydratePartial(state, action.payload)
    [] action.type = "settings/update" ->
         [state EXCEPT !.settings = normalizeSettings(Obj(Merge(state.settings, action.payload)))]
    [] action.type = "polish/add" -> [state EXCEPT !.polishes = AddFirst(state.polishes, action.payload)]
    [] action.type = "polish/update" ->
         [state EXCEPT !.polishes = MapUpdate(state.polishes, action.payload)]
    [] action.type = "polish/delete" ->
         [state EXCEPT !.polishes = FilterOut(state.polishes, action.id)]
    [] action.type = "tool/add" -> [state EXCEPT !.tools = AddFirst(state.tools, action.payload)]
    [] action.type = "tool/update" ->
         [state EXCEPT !.tools = MapUpdate(state.tools, action.payload)]
    [] action.type = "tool/delete" ->
         [state EXCEPT !.tools = FilterOut(state.tools, action.id)]
    [] action.type = "mani/add" -> [state EXCEPT !.manis = AddFirst(state.manis, action.payload)]
    [] action.type = "mani/update" ->
         [state EXCEPT !.manis = MapUpdate(state.manis, action.payload)]
    [] action.type = "mani/delete" ->
         [state EXCEPT !.manis = FilterOut(state.manis, action.id)]
    [] action.type = "reset" -> initialState
    [] OTHER -> state

(***************************************************************************)
(* State                                                                   *)
(***************************************************************************)
VARIABLES
  phase,       \* "boot" before the first commit, then "run", then "unmounted"
  state,       \* the AppState held by useReducer
  isInit,      \* top-level fields that still hold initialState's own object
  mountedRef,  \* mountedRef.current
  unsubRef,    \* unsubRef.current: 0 for null, else the group it unsubscribes
  e2cleanup,   \* whether the subscribe effect's last run returned a cleanup
  groups,      \* per activation of the subscribe effect: its listeners
  pushes,      \* runs of the mirror effect whose writes are not all issued
  remote,      \* the remote store: room -> collection -> documents
  usedIds,     \* identifiers uid() has already produced
  scenario,    \* "fresh", "keyset" or "other": what the user has done so far
  metaWrites,  \* settings documents written since the key was first set
  acts,        \* user actions taken so far
  normIn,      \* argument handed to normalizeSettings
  normOut,     \* its result
  storage,     \* localStorage's entry under STORAGE_KEY
  file,        \* the backup file last exported
  nullColls,   \* collections of the state that hold null and not a list
  threw,       \* whether the reducer has thrown
  alerted,     \* whether importData has shown its alert
  trail,       \* the actions dispatched without sync, exports and imports, in order
  loaded,      \* the entry the load effect read, until its hydrate is committed
  saveFailed   \* whether the save effect's last setItem threw

syncVars == <<phase, state, isInit, mountedRef, unsubRef, e2cleanup, groups, pushes,
              remote, usedIds, scenario, metaWrites, acts>>
normVars == <<normIn, normOut>>
localVars == <<storage, file, nullColls, threw, alerted, trail, loaded, saveFailed>>
vars == <<syncVars, normVars, localVars>>

\* Counted writes of the settings document are capped here.
MaxMetaWrites == 2
\* User actions (dispatches from the views, teardown) in one behaviour.
MaxUserActs == 2

(***************************************************************************)
(* Remote store (Firestore, as the hook uses it)                           *)
(***************************************************************************)
Groups == 1..MaxGroups
FreeGroup == [status |-> "free"]

RECURSIVE SortedDocs(_)
SortedDocs(S) ==
  IF S = {} THEN <<>>
  ELSE LET first == CHOOSE d \in S : \A e \in S : IdRank(d.id) <= IdRank(e.id)
       IN <<first>> \o SortedDocs(S \ {first})

\* snap.docs.map((d) => d.data()): the documents of a collection in
\* document-id order; meta holds at most the one document "settings".
SnapshotOf(store, room, name) ==
  IF name = "meta"
  THEN (IF store[room][name] = {} THEN <<>> ELSE <<CHOOSE d \in store[room][name] : TRUE>>)
  ELSE SortedDocs(store[room][name])

AppendBounded(q, x) == IF Len(q) < MaxQueue THEN Append(q, x) ELSE [q EXCEPT ![Len(q)] = x]

\* A store whose writes would reach no listener.
NotifyNobody(gs, room, name, contents) == gs

\* Every listener on the collection receives its new contents.  The
\* updatedAt field is not kept: serverTimestamp() differs on every write,
\* so every write is a change of the collection.
Notify(gs, room, name, contents) ==
  [g \in DOMAIN gs |->
     IF gs[g].status = "live" /\ gs[g].room = room
     THEN [gs[g] EXCEPT !.q[name] = AppendBounded(@, contents)]
     ELSE gs[g]]

\* A write that would replace the collection by the one document.
SetDocReplace(store, room, name, item) == [store EXCEPT ![room][name] = {item}]

\* A write that would add a document beside the one that has the id.
SetDocAdd(store, room, name, item) == [store EXCEPT ![room][name] = @ \cup {item}]

\* setDoc(doc(db, "rooms", room, name, item.id), {...item, updatedAt}, {merge: true})
SetDocMerge(store, room, name, item) ==
  LET old == {d \in store[room][name] : d.id = item.id}
      merged == IF old = {} THEN item ELSE Merge(CHOOSE d \in old : TRUE, item)
  IN [store EXCEPT ![room][name] = (@ \ old) \cup {merged}]

\* A push that would send the settings as they are.
StripNothing(settings) == settings

\* { ...state.settings, syncKey: undefined }
Strip(settings) == [settings EXCEPT !.syncKey = Undef]

\* setDoc(doc(db, "rooms", room, "meta", "settings"), {settings, updatedAt}, {merge: true})
SetSettingsDoc(store, room, settings) ==
  [store EXCEPT ![room]["meta"] = {[settings |-> settings]}]

\* The function a listener group's unsubRef.current is: it unsubscribes
\* the group's four listeners.
Close(gs, g) == IF g = 0 THEN gs ELSE [gs EXCEPT ![g] = FreeGroup]

(***************************************************************************)
(* useCloudSync                                                            *)
(***************************************************************************)
\* state.settings?.syncKey?.trim()
CurrentKey(s) == Trim(s.settings.syncKey.s)

\* The setDoc calls of upsertAll over one collection: records without an
\* id are skipped.
UpsertAll(name, arr) ==
  LET kept == SelectSeq(arr, LAMBDA item : item.id # "")
  IN [i \in 1..Len(kept) |-> [name |-> name, item |-> kept[i]]]

\* A mirror effect that would leave the manis out.
MirrorWritesNoManis(s) == UpsertAll("polishes", s.polishes) \o UpsertAll("tools", s.tools)

MirrorWrites(s) ==
  UpsertAll("polishes", s.polishes) \o UpsertAll("tools", s.tools) \o UpsertAll("manis", s.manis)

\* One run of the mirror effect: the key and state its closure captured.
NewPush(s) == [key |-> CurrentKey(s), writes |-> MirrorWrites(s), settings |-> Strip(s.settings)]

Min(S) == CHOOSE x \in S : \A y \in S : x <= y

\* A mirror effect that would depend on the state as a whole.
MirrorDepsWholeState(changed) == TRUE

\* A mirror effect that would not depend on the settings.
MirrorDepsNoSettings(changed) == changed \cap {"polishes", "tools", "manis"} # {}

\* Whether a change of these top-level fields re-runs the mirror effect.
MirrorDeps(changed) == changed \cap {"polishes", "tools", "manis", "settings"} # {}

\* Whether it re-runs the subscribe effect.
SubscribeDeps(changed) == "settings" \in changed

\* A commit of newState after a dispatch: the effects whose dependencies
\* changed run, the subscribe effect (its previous cleanup first) and then
\* the mirror effect, each up to its first await.
Commit(gs, newState, changed) ==
  LET key == CurrentKey(newState)
      cleaned == IF e2cleanup THEN Close(gs, unsubRef) ELSE gs
      ref == IF e2cleanup THEN 0 ELSE unsubRef
      free == {g \in Groups : cleaned[g].status = "free"}
  IN /\ state' = newState
     /\ IF ~SubscribeDeps(changed)
        THEN groups' = gs /\ UNCHANGED <<unsubRef, e2cleanup>>
        ELSE IF key = <<>>
        THEN groups' = Close(cleaned, ref) /\ unsubRef' = 0 /\ e2cleanup' = FALSE
        ELSE /\ free # {}
             /\ groups' = [cleaned EXCEPT ![Min(free)] =
                             [status |-> "auth", room |-> key, settings |-> newState.settings]]
             /\ unsubRef' = ref
             /\ e2cleanup' = TRUE
     /\ IF MirrorDeps(changed) /\ key # <<>>
        THEN Len(pushes) < MaxPushes /\ pushes' = Append(pushes, NewPush(newState))
        ELSE UNCHANGED pushes

(***************************************************************************)
(* Boot (usePersistentState's load effect and the first commit)            *)
(***************************************************************************)
\* Blobs that localStorage may hold at process start: a saved state whose
\* key is white space and whose one polish has no id (an edited backup that
\* was imported), and a state saved with sync configured.
BlobBlankKey ==
  [polishes |-> <<Rec("", 0)>>, tools |-> <<>>, manis |-> <<>>,
   settings |-> [defaultSettings EXCEPT !.syncKey = Str(<<" ">>)], createdAt |-> 0]
BlobSynced ==
  [polishes |-> <<Rec("p1", 0)>>, tools |-> <<>>, manis |-> <<>>,
   settings |-> [defaultSettings EXCEPT !.syncKey = Str(KeyHome)], createdAt |-> 0]
PersistedBlobs == {BlobBlankKey, BlobSynced}

EmptyRoom == [polishes |-> {}, tools |-> {}, manis |-> {}, meta |-> {}]

InitSync ==
  /\ phase = "boot"
  /\ state = initialState
  /\ isInit = {"polishes", "tools", "manis", "settings"}
  /\ mountedRef = FALSE
  /\ unsubRef = 0
  /\ e2cleanup = FALSE
  /\ groups = [g \in Groups |-> FreeGroup]
  /\ pushes = <<>>
  /\ remote = [r \in Rooms |-> EmptyRoom]
  /\ usedIds = {}
  /\ scenario = "fresh"
  /\ metaWrites = 0
  /\ acts = 0

IdsIn(s) == {s.polishes[i].id : i \in 1..Len(s.polishes)}
            \cup {s.tools[i].id : i \in 1..Len(s.tools)}
            \cup {s.manis[i].id : i \in 1..Len(s.manis)}

\* The first commit: the load effect finds nothing to load (or fails to
\* parse it), the mount effect sets mountedRef, the subscribe effect takes
\* its blank branch and the mirror effect returns at once.
BootDefaults ==
  /\ phase = "boot"
  /\ phase' = "run"
  /\ mountedRef' = TRUE
  /\ UNCHANGED <<state, isInit, unsubRef, e2cleanup, groups, pushes, remote, usedIds,
                 scenario, metaWrites, acts, normVars, localVars>>

\* The first commit with a parseable blob: as above, then the load
\* effect's hydrate dispatch is committed.
BootHydrate(parsed) ==
  LET merged == Merge(initialState, parsed)
      hydrated == [merged EXCEPT !.settings = normalizeSettings(Obj(merged.settings))]
  IN /\ phase = "boot"
     /\ phase' = "run"
     /\ mountedRef' = TRUE
     /\ Commit(groups, reducer(state, [type |-> "hydrate", payload |-> hydrated]),
               {"polishes", "tools", "manis", "settings"})
     /\ isInit' = {}
     /\ usedIds' = IdsIn(hydrated)
     /\ scenario' = IF CurrentKey(hydrated) = <<>> THEN "fresh" ELSE "other"
     /\ UNCHANGED <<remote, metaWrites, acts, normVars, localVars>>

(***************************************************************************)
(* User actions (dispatched by the views)                                  *)
(***************************************************************************)
\* A dispatch from an event handler and the commit that follows it.
UserDispatch(action, changed) ==
  /\ phase = "run"
  /\ acts < MaxUserActs
  /\ acts' = acts + 1
  /\ Commit(groups, reducer(state, action), changed)
  /\ isInit' = IF action.type = "reset" THEN {"polishes", "tools", "manis", "settings"}
               ELSE isInit \ changed
  /\ scenario' = IF scenario = "fresh"
                 THEN (IF CurrentKey(reducer(state, action)) = <<>> THEN "fresh" ELSE "keyset")
                 ELSE "other"
  /\ metaWrites' = 0
  /\ UNCHANGED <<phase, mountedRef, remote, normVars, localVars>>

\* BackupView's household-key field.
SetSyncKey(k) ==
  /\ UserDispatch([type |-> "settings/update", payload |-> [syncKey |-> Str(Trim(k))]],
                  {"settings"})
  /\ UNCHANGED usedIds

AddRecord(name, type, id) ==
  /\ id \in IdsOf[name] \ usedIds
  /\ UserDispatch([type |-> type, payload |-> Rec(id, 0)], {name})
  /\ usedIds' = usedIds \cup {id}

AddPolish(id) == AddRecord("polishes", "polish/add", id)
AddTool(id) == AddRecord("tools", "tool/add", id)
AddMani(id) == AddRecord("manis", "mani/add", id)

\* Inventory's edit form: the payload carries the edited record's id.
UpdatePolish(i, v) ==
  /\ i \in 1..Len(state.polishes)
  /\ UserDispatch([type |-> "polish/update", payload |-> Rec(state.polishes[i].id, v)],
                  {"polishes"})
  /\ UNCHANGED usedIds

DeletePolish(i) ==
  /\ i \in 1..Len(state.polishes)
  /\ UserDispatch([type |-> "polish/delete", id |-> state.polishes[i].id], {"polishes"})
  /\ UNCHANGED usedIds

DeleteTool(i) ==
  /\ i \in 1..Len(state.tools)
  /\ UserDispatch([type |-> "tool/delete", id |-> state.tools[i].id], {"tools"})
  /\ UNCHANGED usedIds

\* "Reset all data": the fields that are not initialState's already change.
Reset ==
  /\ UserDispatch([type |-> "reset"], {"polishes", "tools", "manis", "settings"} \ isInit)
  /\ UNCHANGED usedIds

\* The owning view is torn down: the mount effect's cleanup, then the
\* subscribe effect's cleanup if its last run returned one.
Unmount ==
  /\ phase = "run"
  /\ acts < MaxUserActs
  /\ acts' = acts + 1
  /\ phase' = "unmounted"
  /\ mountedRef' = FALSE
  /\ groups' = Close(groups, unsubRef)
  /\ unsubRef' = IF e2cleanup THEN 0 ELSE unsubRef
  /\ e2cleanup' = FALSE
  /\ scenario' = "other"
  /\ metaWrites' = 0
  /\ UNCHANGED <<state, isInit, pushes, remote, usedIds, normVars, localVars>>

(***************************************************************************)
(* Asynchronous continuations                                              *)
(***************************************************************************)
CountMeta == IF scenario = "keyset" /\ metaWrites < MaxMetaWrites
             THEN metaWrites + 1 ELSE metaWrites

\* An activation whose await of ensureAnonAuth() has resolved: it has no
\* listener yet.  log is what the activation has done so far, in order,
\* each remote operation with the path it addresses.
Identified(room) ==
  [status |-> "live", room |-> room, q |-> <<>>, log |-> <<[op |-> "identity", path |-> <<>>]>>]

\* makeListener(name): onSnapshot on collection(db, "rooms", room, name),
\* which delivers the collection's contents as the initial snapshot.
MakeListener(a, store, name) ==
  [a EXCEPT !.q = (name :> <<SnapshotOf(store, a.room, name)>>) @@ @,
            !.log = Append(@, [op |-> "listen", path |-> <<"rooms", a.room, name>>])]

RECURSIVE MakeListenersFrom(_, _, _)
MakeListenersFrom(a, store, names) ==
  IF names = <<>> THEN a
  ELSE MakeListenersFrom(MakeListener(a, store, Head(names)), store, Tail(names))

\* unsubs = [makeListener("polishes"), ..., makeListener("meta")]
MakeListeners(store, room) == MakeListenersFrom(Identified(room), store, ListenerNames)

\* The activation's setDoc on doc(db, "rooms", room, "meta", "settings").
LogPush(a) ==
  [a EXCEPT !.log = Append(@, [op |-> "push", path |-> <<"rooms", a.room, "meta", "settings">>])]

\* An activation that would push the settings before it opens a listener.
ActivationResumePushFirst(g) ==
  /\ phase # "boot"
  /\ groups[g].status = "auth"
  /\ LET room == groups[g].room
         store == SetSettingsDoc(remote, room, Strip(groups[g].settings))
     IN /\ remote' = store
        /\ groups' = [groups EXCEPT ![g] =
                        MakeListenersFrom(LogPush(Identified(room)), store, ListenerNames)]
  /\ unsubRef' = g
  /\ metaWrites' = CountMeta
  /\ UNCHANGED <<phase, state, isInit, mountedRef, e2cleanup, pushes, usedIds, scenario,
                 acts, normVars, localVars>>

\* An activation resumes after ensureAnonAuth: it creates its listeners,
\* stores their unsubscribe in unsubRef and issues the settings push.
ActivationResume(g) ==
  /\ phase # "boot"
  /\ groups[g].status = "auth"
  /\ LET room == groups[g].room
         store == SetSettingsDoc(remote, room, Strip(groups[g].settings))
     IN /\ remote' = store
        /\ groups' = Notify([groups EXCEPT ![g] = LogPush(MakeListeners(remote, room))],
                            room, "meta", SnapshotOf(store, room, "meta"))
  /\ unsubRef' = g
  /\ metaWrites' = CountMeta
  /\ UNCHANGED <<phase, state, isInit, mountedRef, e2cleanup, pushes, usedIds, scenario,
                 acts, normVars, localVars>>

\* A listener's callback runs with the oldest snapshot it has not seen.
Deliver(g, n) ==
  /\ groups[g].status = "live"
  /\ groups[g].q[n] # <<>>
  /\ LET items == Head(groups[g].q[n])
         gs == [groups EXCEPT ![g].q[n] = Tail(@)]
     IN IF mountedRef
        THEN /\ Commit(gs, reducer(state, [type |-> "hydrate/partial",
                                           payload |-> [f \in {n} |-> items]]),
                       {n} \cap NameSet)
             /\ isInit' = isInit \ {n}
        ELSE /\ groups' = gs
             /\ UNCHANGED <<state, isInit, unsubRef, e2cleanup, pushes>>
  /\ UNCHANGED <<phase, mountedRef, remote, usedIds, scenario, metaWrites, acts, normVars, localVars>>

RemoveAt(seq, i) == SubSeq(seq, 1, i - 1) \o SubSeq(seq, i + 1, Len(seq))

\* A push that would write into the room of the key configured at the
\* time of each write (its own room when no key is configured).
PushStepCurrentRoom(i) ==
  /\ i \in 1..Len(pushes)
  /\ LET task == pushes[i]
         room == IF CurrentKey(state) \in Rooms THEN CurrentKey(state) ELSE task.key
     IN
     IF task.writes # <<>>
     THEN LET w == Head(task.writes)
              store == SetDocMerge(remote, room, w.name, w.item)
          IN /\ remote' = store
             /\ groups' = Notify(groups, room, w.name, SnapshotOf(store, room, w.name))
             /\ pushes' = [pushes EXCEPT ![i].writes = Tail(@)]
             /\ UNCHANGED metaWrites
     ELSE LET store == SetSettingsDoc(remote, room, task.settings)
          IN /\ remote' = store
             /\ groups' = Notify(groups, room, "meta", SnapshotOf(store, room, "meta"))
             /\ pushes' = RemoveAt(pushes, i)
             /\ metaWrites' = CountMeta
  /\ UNCHANGED <<phase, state, isInit, mountedRef, unsubRef, e2cleanup, usedIds, scenario,
                 acts, normVars, localVars>>

\* The next setDoc of a push: the records in order, then the settings.
PushStep(i) ==
  /\ i \in 1..Len(pushes)
  /\ LET task == pushes[i] IN
     IF task.writes # <<>>
     THEN LET w == Head(task.writes)
              store == SetDocMerge(remote, task.key, w.name, w.item)
          IN /\ remote' = store
             /\ groups' = Notify(groups, task.key, w.name, SnapshotOf(store, task.key, w.name))
             /\ pushes' = [pushes EXCEPT ![i].writes = Tail(@)]
             /\ UNCHANGED metaWrites
     ELSE LET store == SetSettingsDoc(remote, task.key, task.settings)
          IN /\ remote' = store
             /\ groups' = Notify(groups, task.key, "meta", SnapshotOf(store, task.key, "meta"))
             /\ pushes' = RemoveAt(pushes, i)
             /\ metaWrites' = CountMeta
  /\ UNCHANGED <<phase, state, isInit, mountedRef, unsubRef, e2cleanup, usedIds, scenario,
                 acts, normVars, localVars>>

(***************************************************************************)
(* Local persistence and backup (usePersistentState, BackupView)           *)
(***************************************************************************)
\* A text (a localStorage entry, a backup file) is absent, or is one that
\* JSON.parse rejects, or is the JSON text of a value.  The value of an
\* AppState's text is its fields and the set of collections that are
\* null; a null collection's field holds <<>>.
NoText == [kind |-> "absent"]
BadText == [kind |-> "garbage"]
JsonText(v) == [kind |-> "json", v |-> v]

\* JSON.stringify of a value inside settings: NaN becomes null, and so
\* does undefined inside a list.
JsonOfValue(x) ==
  IF x.t \in {"NaN", "undefined"} THEN Null
  ELSE IF x.t = "arr"
  THEN Arr([i \in DOMAIN x.a |-> IF x.a[i].t \in {"NaN", "undefined"} THEN Null ELSE x.a[i]])
  ELSE x

\* JSON.stringify of settings: a field that is undefined is left out.
JsonOfSettings(s) ==
  [f \in {k \in DOMAIN s : s[k].t # "undefined"} |-> JsonOfValue(s[f])]

\* JSON.stringify(state)
Stringify(s, nulls) ==
  JsonText([fields |-> [s EXCEPT !.settings = JsonOfSettings(@)], nulls |-> nulls])

\* merged.settings || {}
SettingsOrEmpty(merged, nulls) ==
  IF "settings" \in nulls THEN Obj(<<>>) ELSE Obj(merged.settings)

\* A load effect that would hydrate the merged value as it is.
HydratedRaw(parsed) == Merge(initialState, parsed.fields)

\* The payload of the load effect's hydrate for a parsed value:
\* { ...initialState, ...parsed } with its settings normalized.
Hydrated(parsed) ==
  LET merged == Merge(initialState, parsed.fields)
  IN [merged EXCEPT !.settings = normalizeSettings(SettingsOrEmpty(merged, parsed.nulls))]

\* Longest collection the local specification builds.
MaxLen == 2
\* Dispatches, exports and imports in one behaviour of the local
\* specification.
MaxLocalActs == 3

\* Whether the reducer throws: spreading null, and map or filter of null,
\* are TypeErrors.
CollOf(type) ==
  CASE type \in {"polish/add", "polish/update", "polish/delete"} -> "polishes"
    [] type \in {"tool/add", "tool/update", "tool/delete"} -> "tools"
    [] type \in {"mani/add", "mani/update", "mani/delete"} -> "manis"
    [] OTHER -> "none"

Throws(action) == CollOf(action.type) \in nullColls

LocalIdle ==
  /\ storage = NoText
  /\ file = NoText
  /\ nullColls = {}
  /\ threw = FALSE
  /\ alerted = FALSE
  /\ trail = <<>>
  /\ loaded = NoText
  /\ saveFailed = FALSE

(***************************************************************************)
(* Specification of the application                                        *)
(***************************************************************************)
NormIdle == normIn = Undef /\ normOut = Undef

Init == InitSync /\ NormIdle /\ LocalIdle

Next ==
  \/ BootDefaults
  \/ \E parsed \in PersistedBlobs : BootHydrate(parsed)
  \/ \E k \in UIKeys : SetSyncKey(k)
  \/ \E id \in IdsOf.polishes : AddPolish(id)
  \/ \E id \in IdsOf.tools : AddTool(id)
  \/ \E id \in IdsOf.manis : AddMani(id)
  \/ \E i \in 1..2, v \in Values : UpdatePolish(i, v)
  \/ \E i \in 1..2 : DeletePolish(i)
  \/ \E i \in 1..2 : DeleteTool(i)
  \/ Reset
  \/ Unmount
  \/ \E g \in Groups : ActivationResume(g)
  \/ \E g \in Groups, n \in ListenerNameSet : Deliver(g, n)
  \/ \E i \in 1..MaxPushes : PushStep(i)

Spec == Init /\ [][Next]_vars

\* The event loop runs every continuation and every listener callback that
\* is ready: each promise settles (remote operations succeed) and each
\* listener's snapshots are delivered.  A callback that the bound on pushes
\* in flight holds back now and then still runs (strong fairness).  The
\* user is under no obligation to act.
Fairness ==
  /\ \A g \in Groups : WF_vars(ActivationResume(g))
  /\ \A g \in Groups, n \in ListenerNameSet : SF_vars(Deliver(g, n))
  /\ \A i \in 1..MaxPushes : WF_vars(PushStep(i))

\* One household, one polish: the application is started (with nothing
\* saved, or with a state saved while sync was configured), the user may
\* set the key, add the polish and edit it, and the adapter runs.
NextEcho ==
  \/ BootDefaults
  \/ BootHydrate(BlobSynced)
  \/ SetSyncKey(KeyHome)
  \/ AddPolish("p1")
  \/ \E v \in Values : UpdatePolish(1, v)
  \/ \E g \in Groups : ActivationResume(g)
  \/ \E g \in Groups, n \in ListenerNameSet : Deliver(g, n)
  \/ \E i \in 1..MaxPushes : PushStep(i)

FairSpec == Init /\ [][NextEcho]_vars /\ Fairness

\* One household, one polish that was saved while sync was configured: the
\* application is started, the user may add a second polish and delete
\* either (and delete it again when it is back), and the adapter runs.
NextDelete ==
  \/ BootHydrate(BlobSynced)
  \/ AddPolish("p2")
  \/ \E i \in 1..2 : DeletePolish(i)
  \/ \E g \in Groups : ActivationResume(g)
  \/ \E g \in Groups, n \in ListenerNameSet : Deliver(g, n)
  \/ \E i \in 1..MaxPushes : PushStep(i)

FairDelete == Init /\ [][NextDelete]_vars /\ Fairness

(***************************************************************************)
(* Specification of the application without sync: reducer, persistence     *)
(* and backup                                                              *)
(***************************************************************************)
\* Values localStorage or a chosen backup file may hold: a state saved by
\* the application, a hand-edited backup with a non-numeric count and a
\* name to trim, one whose manis are null, and one whose settings are null.
BlobSaved ==
  [fields |-> [polishes |-> <<Rec("p1", 0)>>, tools |-> <<Rec("t1", 0)>>, manis |-> <<>>,
               settings |-> defaultSettings, createdAt |-> 0],
   nulls |-> {}]
BlobEdited ==
  [fields |-> [polishes |-> <<Rec("p2", 1)>>,
               settings |-> [wallCount |-> Int2Num(3), shelvesPerWall |-> Str(<<"a">>),
                             wallNames |-> Arr(<<Str(<<" ", "K">>)>>)]],
   nulls |-> {}]
BlobNullManis ==
  [fields |-> [manis |-> <<>>, createdAt |-> 0], nulls |-> {"manis"}]
BlobNullSettings ==
  [fields |-> [settings |-> defaultSettings, createdAt |-> 0], nulls |-> {"settings"}]
LocalBlobs == {BlobSaved, BlobEdited, BlobNullManis, BlobNullSettings}

Texts == {NoText, BadText} \cup {JsonText(b) : b \in LocalBlobs}

InitLocal ==
  /\ InitSync
  /\ NormIdle
  /\ storage \in Texts
  /\ file = NoText
  /\ nullColls = {}
  /\ threw = FALSE
  /\ alerted = FALSE
  /\ trail = <<>>
  /\ loaded = NoText
  /\ saveFailed = FALSE

\* A save effect that would leave the settings out of what it stores.
SavedWithoutSettings(s, nulls) == Stringify([s EXCEPT !.settings = defaultSettings], nulls)

\* The save effect: localStorage.setItem(STORAGE_KEY, JSON.stringify(state)).
Saved(s, nulls) == Stringify(s, nulls)

\* One run of the save effect on the state s: setItem stores the state's
\* text, or throws (the quota is exceeded, storage is denied) and the entry
\* stays as it is; the catch logs the failure.
SaveEffect(s, nulls) ==
  \E ok \in BOOLEAN :
    /\ storage' = IF ok THEN Saved(s, nulls) ELSE storage
    /\ saveFailed' = ~ok

\* The first commit, on initialState: the load effect reads the entry and,
\* if it parses, dispatches hydrate; then the save effect runs on the state
\* of this render, which is initialState.
LocalBoot ==
  /\ phase = "boot"
  /\ IF storage.kind = "json"
     THEN phase' = "hydrating" /\ loaded' = storage
     ELSE phase' = "run" /\ loaded' = NoText
  /\ SaveEffect(state, nullColls)
  /\ UNCHANGED <<state, nullColls, isInit, mountedRef, unsubRef, e2cleanup, groups, pushes,
                 remote, usedIds, scenario, metaWrites, acts, normVars, file, threw, alerted,
                 trail>>

\* The commit of the load effect's hydrate, and the save effect on the
\* hydrated state.
LocalHydrate ==
  /\ phase = "hydrating"
  /\ phase' = "run"
  /\ state' = reducer(state, [type |-> "hydrate", payload |-> Hydrated(loaded.v)])
  /\ nullColls' = loaded.v.nulls \cap NameSet
  /\ loaded' = NoText
  /\ SaveEffect(state', nullColls')
  /\ UNCHANGED <<isInit, mountedRef, unsubRef, e2cleanup, groups, pushes, remote, usedIds,
                 scenario, metaWrites, acts, normVars, file, threw, alerted, trail>>

\* The action types the reducer has a case for; for any other it returns
\* the state it was given, and nothing is rendered again.
KnownTypes ==
  {"hydrate", "hydrate/partial", "settings/update", "reset",
   "polish/add", "polish/update", "polish/delete",
   "tool/add", "tool/update", "tool/delete",
   "mani/add", "mani/update", "mani/delete"}

\* A dispatch and the commit that follows it, with the save effect on the
\* new state; a reducer that throws takes the view down and leaves state
\* and storage as they were.
LocalDispatch(action, replaced) ==
  /\ phase = "run"
  /\ ~threw
  /\ acts < MaxLocalActs
  /\ acts' = acts + 1
  /\ trail' = Append(trail, action)
  /\ IF Throws(action)
     THEN /\ threw' = TRUE
          /\ UNCHANGED <<state, nullColls, storage, saveFailed>>
     ELSE IF action.type \notin KnownTypes
     THEN UNCHANGED <<state, nullColls, storage, saveFailed, threw>>
     ELSE /\ state' = reducer(state, action)
          /\ nullColls' = nullColls \ replaced
          /\ SaveEffect(state', nullColls')
          /\ UNCHANGED threw
  /\ UNCHANGED <<phase, isInit, mountedRef, unsubRef, e2cleanup, groups, pushes, remote,
                 usedIds, scenario, metaWrites, normVars, file, alerted, loaded>>

LocalIds == [polishes |-> {"p1", "p2"}, tools |-> {"t1"}, manis |-> {"m1"}]
Entity == [polishes |-> "polish", tools |-> "tool", manis |-> "mani"]

\* {entity}/add; the identifier need not be new.
LocalAdd(n, id, v) ==
  /\ Len(state[n]) < MaxLen
  /\ LocalDispatch([type |-> Entity[n] \o "/add", payload |-> Rec(id, v)], {})

\* {entity}/update and {entity}/delete, from the views the application
\* shows once it has rendered.
LocalUpdate(n, id, v) ==
  /\ phase = "run"
  /\ LocalDispatch([type |-> Entity[n] \o "/update", payload |-> Rec(id, v)], {})

LocalDelete(n, id) ==
  /\ phase = "run"
  /\ LocalDispatch([type |-> Entity[n] \o "/delete", id |-> id], {})

\* Payloads of settings/update: the planner's wall count with its names
\* (3, 27 and 2.5 walls), a shelf count, names of which one is blank and
\* one is to trim, and the household key.
SettingsPayloads ==
  {[wallCount |-> Int2Num(3)],
   [wallCount |-> Int2Num(27)],
   [wallCount |-> Num(5), wallNames |-> Arr(<<Str(<<"A">>), Str(<<"B">>)>>)],
   [shelvesPerWall |-> Int2Num(1)],
   [wallNames |-> Arr(<<Str(<<" ">>), Str(<<" ", "X", " ">>)>>)],
   [syncKey |-> Str(KeyHome)]}

LocalSettingsUpdate(payload) ==
  /\ phase = "run"
  /\ LocalDispatch([type |-> "settings/update", payload |-> payload], {})

\* hydrate/partial with one collection, as a listener dispatches it.
LocalHydratePartial(n, items) ==
  /\ phase = "run"
  /\ LocalDispatch([type |-> "hydrate/partial", payload |-> [f \in {n} |-> items]], {n})

LocalReset ==
  /\ phase = "run"
  /\ LocalDispatch([type |-> "reset"], NameSet)

\* An action of a type the reducer does not know.
LocalUnknown ==
  /\ phase = "run"
  /\ LocalDispatch([type |-> "noop"], {})

\* exportData: the file holds JSON.stringify(state, null, 2).
ExportData ==
  /\ phase = "run"
  /\ ~threw
  /\ acts < MaxLocalActs
  /\ acts' = acts + 1
  /\ trail' = Append(trail, [type |-> "export"])
  /\ file' = Stringify(state, nullColls)
  /\ UNCHANGED <<phase, state, isInit, mountedRef, unsubRef, e2cleanup, groups, pushes,
                 remote, usedIds, scenario, metaWrites, normVars, storage, nullColls, threw,
                 alerted, loaded, saveFailed>>

\* An import that would store the file's text before parsing it.
ImportDataStoreFirst(f) ==
  /\ phase = "run"
  /\ ~threw
  /\ f # NoText
  /\ acts < MaxLocalActs
  /\ acts' = acts + 1
  /\ trail' = Append(trail, [type |-> "import", file |-> f])
  /\ storage' = f
  /\ IF f.kind = "json"
     THEN /\ phase' = "boot"
          /\ state' = initialState
          /\ nullColls' = {}
          /\ saveFailed' = FALSE
          /\ UNCHANGED alerted
     ELSE /\ alerted' = TRUE
          /\ UNCHANGED <<phase, state, nullColls, saveFailed>>
  /\ UNCHANGED <<isInit, mountedRef, unsubRef, e2cleanup, groups, pushes, remote, usedIds,
                 scenario, metaWrites, normVars, file, threw, loaded>>

\* importData(file): a file that parses replaces the entry (this setItem
\* is taken to succeed) and the page reloads; one that does not is answered
\* with an alert.
ImportData(f) ==
  /\ phase = "run"
  /\ ~threw
  /\ f # NoText
  /\ acts < MaxLocalActs
  /\ acts' = acts + 1
  /\ trail' = Append(trail, [type |-> "import", file |-> f])
  /\ IF f.kind = "json"
     THEN /\ storage' = JsonText(f.v)
          /\ phase' = "boot"
          /\ state' = initialState
          /\ nullColls' = {}
          /\ saveFailed' = FALSE
          /\ UNCHANGED alerted
     ELSE /\ alerted' = TRUE
          /\ UNCHANGED <<storage, phase, state, nullColls, saveFailed>>
  /\ UNCHANGED <<isInit, mountedRef, unsubRef, e2cleanup, groups, pushes, remote, usedIds,
                 scenario, metaWrites, normVars, file, threw, loaded>>

NextLocal ==
  \/ LocalBoot
  \/ LocalHydrate
  \/ \E n \in NameSet : \E id \in LocalIds[n], v \in Values : LocalAdd(n, id, v)
  \/ \E n \in NameSet : \E id \in LocalIds[n], v \in Values : LocalUpdate(n, id, v)
  \/ \E n \in NameSet : \E id \in LocalIds[n] : LocalDelete(n, id)
  \/ \E payload \in SettingsPayloads : LocalSettingsUpdate(payload)
  \/ \E n \in NameSet : \E items \in {<<>>, <<Rec("p1", 1)>>} : LocalHydratePartial(n, items)
  \/ LocalReset
  \/ LocalUnknown
  \/ ExportData
  \/ \E f \in {BadText, file, JsonText(BlobEdited)} : ImportData(f)

SpecLocal == InitLocal /\ [][NextLocal]_vars

(***************************************************************************)
(* Specification of the wall planner: placements and layout settings       *)
(***************************************************************************)
\* Largest number of walls, shelves per wall and slots per shelf that is
\* entered in the planner's fields.
MaxSide == 2

WallA == Str(<<"A">>)
WallB == Str(<<"B">>)

\* A polish with the placement fields of PolishForm.
Placed(id, wall, shelf, position) ==
  [id |-> id, v |-> 0, wall |-> wall, shelf |-> shelf, position |-> position]

\* A state saved by the application: two walls of two shelves of two
\* slots, one polish on wall A and one on wall B.
BlobPlanner ==
  [fields |-> [polishes |-> <<Placed("p1", WallA, Int2Num(1), Int2Num(1)),
                              Placed("p2", WallB, Int2Num(2), Int2Num(2))>>,
               tools |-> <<>>, manis |-> <<>>,
               settings |-> [defaultSettings EXCEPT !.shelvesPerWall = Int2Num(2),
                                                    !.slotsPerShelf = Int2Num(2)],
               createdAt |-> 0],
   nulls |-> {}]

InitPlanner ==
  /\ InitSync
  /\ NormIdle
  /\ storage = JsonText(BlobPlanner)
  /\ file = NoText
  /\ nullColls = {}
  /\ threw = FALSE
  /\ alerted = FALSE
  /\ trail = <<>>
  /\ loaded = NoText
  /\ saveFailed = FALSE

\* The walls, shelves and positions the planner renders a slot for.
WallsShown(s) == {s.settings.wallNames.a[i] : i \in DOMAIN s.settings.wallNames.a}
ShelvesShown(s) == 1..ToLength(s.settings.shelvesPerWall)
SlotsShown(s) == 1..ToLength(s.settings.slotsPerShelf)

\* state.polishes.find((p) => p.id === id)
Find(coll, id) == coll[CHOOSE i \in 1..Len(coll) :
                         coll[i].id = id /\ \A j \in 1..(i - 1) : coll[j].id # id]

\* handleDrop: the card of the polish id is dropped on the slot.
handleDrop(id, wall, shelf, position) ==
  /\ id # ""
  /\ \E i \in 1..Len(state.polishes) : state.polishes[i].id = id
  /\ wall \in WallsShown(state)
  /\ shelf \in ShelvesShown(state)
  /\ position \in SlotsShown(state)
  /\ LocalDispatch([type |-> "polish/update",
                    payload |-> Merge(Find(state.polishes, id),
                                      [wall |-> wall, shelf |-> Int2Num(shelf),
                                       position |-> Int2Num(position)])], {})

\* PolishForm submitted for a new polish: a fresh id, and a placement the
\* form's fields accept (a wall of the list, shelf and position within
\* the fields' min and max) or none.
FormAdd(id, wall, shelf, position) ==
  /\ \A i \in 1..Len(state.polishes) : state.polishes[i].id # id
  /\ \/ wall = Null /\ shelf = Null /\ position = Null
     \/ /\ wall \in WallsShown(state)
        /\ shelf \in {Int2Num(n) : n \in ShelvesShown(state)}
        /\ position \in {Int2Num(n) : n \in SlotsShown(state)}
  /\ LocalDispatch([type |-> "polish/add", payload |-> Placed(id, wall, shelf, position)], {})

\* Math.max(1, Math.min(50, n))
Clamp1To50(n) == IF n < 1 THEN 1 ELSE IF n > 50 THEN 50 ELSE n

\* The "Number of walls" field: the count, with the names there are and
\* generated labels for the rest.
SetWallCount(entered) ==
  LET n == Clamp1To50(entered)
      old == state.settings.wallNames.a
      names == [i \in 1..n |-> IF Truthy(At(old, i - 1)) THEN At(old, i - 1)
                                ELSE Str(labelForIndex(i - 1))]
  IN LocalDispatch([type |-> "settings/update",
                    payload |-> [wallCount |-> Int2Num(n), wallNames |-> Arr(names)]], {})

\* The "Shelves per wall" and "Slots per shelf" fields: Math.max(1, n).
SetShelvesPerWall(entered) ==
  /\ phase = "run"
  /\ LocalDispatch([type |-> "settings/update",
                    payload |-> [shelvesPerWall |-> MathMax1(Int2Num(entered))]], {})

SetSlotsPerShelf(entered) ==
  /\ phase = "run"
  /\ LocalDispatch([type |-> "settings/update",
                    payload |-> [slotsPerShelf |-> MathMax1(Int2Num(entered))]], {})

\* A "Wall n name" field: names[idx] = the text entered.
RenameWall(idx, text) ==
  /\ idx \in 0..(Len(state.settings.wallNames.a) - 1)
  /\ LocalDispatch([type |-> "settings/update",
                    payload |-> [wallNames |-> Arr([state.settings.wallNames.a
                                                      EXCEPT ![idx + 1] = Str(text)])]], {})

NextPlanner ==
  \/ LocalBoot
  \/ LocalHydrate
  \/ \E id \in {"p1", "p2", "p3"}, wall \in {WallA, WallB, Str(<<"X">>)} :
       \E shelf \in 1..MaxSide, position \in 1..MaxSide : handleDrop(id, wall, shelf, position)
  \/ \E wall \in {Null, WallA, WallB, Str(<<"X">>)} :
       \E shelf, position \in {Null} \cup {Int2Num(n) : n \in 1..MaxSide} :
         FormAdd("p3", wall, shelf, position)
  \/ \E entered \in 0..MaxSide : SetWallCount(entered)
  \/ \E entered \in 0..MaxSide : SetShelvesPerWall(entered)
  \/ \E entered \in 0..MaxSide : SetSlotsPerShelf(entered)
  \/ \E idx \in 0..(MaxSide - 1) : RenameWall(idx, <<"X">>)

SpecPlanner == InitPlanner /\ [][NextPlanner]_vars

(***************************************************************************)
(* Specification of the settings normalizer alone                          *)
(***************************************************************************)
\* Values a count field may hold in a stored, imported or dispatched
\* settings object: missing, null, 0, -1, 3, 27, 2.5, "a", "3", "".
CountInputs ==
  {Undef, Null, Int2Num(0), Int2Num(0 - 1), Int2Num(3), Int2Num(27), Num(5),
   Str(<<"a">>), Str(<<"3">>), Str(<<>>)}

\* wallNames: missing, empty, too short, too long with blank and null
\* entries and a name to trim, and a string instead of a list.
WallNamesInputs ==
  {Undef, Arr(<<>>), Arr(<<Str(<<"K">>)>>),
   Arr(<<Str(<<" ">>), Null, Str(<<" ", "X", " ">>), Str(<<"Y">>)>>),
   Str(<<"A", "B">>)}

NormInputs ==
  {Undef, Null, Obj(<<>>)}
  \cup {Obj([wallCount |-> c, shelvesPerWall |-> sh, slotsPerShelf |-> sl, wallNames |-> w]) :
          c \in CountInputs, sh \in {Undef, Str(<<"a">>), Num(5)},
          sl \in {Undef, Int2Num(0)}, w \in WallNamesInputs}

InitNorm == InitSync /\ normIn \in NormInputs /\ normOut = Undef /\ LocalIdle

\* normalizeSettings is applied to the argument.
Normalize ==
  /\ normOut = Undef
  /\ normOut' = normalizeSettings(normIn)
  /\ UNCHANGED <<normIn, syncVars, localVars>>

\* Its result is normalized again, as settings/update does with the
\* settings it merged a payload into.
Renormalize ==
  /\ normOut # Undef
  /\ normIn # Obj(normOut)
  /\ normIn' = Obj(normOut)
  /\ normOut' = Undef
  /\ UNCHANGED <<syncVars, localVars>>

NextNorm == Normalize \/ Renormalize

SpecNorm == InitNorm /\ [][NextNorm]_vars

(***************************************************************************)
(* Properties                                                              *)
(***************************************************************************)
IsCount(x) == x.t = "num" /\ x.halves >= 2

\* C6: whatever the partial settings input, the normalizer's result has
\* wallCount, shelvesPerWall and slotsPerShelf >= 1 and as many wall names
\* as wallCount.
C6_NormalizedValid ==
  normOut # Undef =>
    /\ IsCount(normOut.wallCount)
    /\ IsCount(normOut.shelvesPerWall)
    /\ IsCount(normOut.slotsPerShelf)
    /\ normOut.wallCount = Int2Num(Len(normOut.wallNames.a))

LiveGroups == {g \in Groups : groups[g].status = "live"}

\* C1: once the key has changed, no listener opened under the previous key
\* is subscribed any more, and no snapshot of a room other than the
\* configured key's is dispatched into the reducer.
C1_NoListenerOfPreviousKey ==
  [][/\ \A g \in Groups :
          groups'[g].status = "live" => groups'[g].room = CurrentKey(state')
     /\ \A g \in Groups, n \in ListenerNameSet :
          (Deliver(g, n) /\ mountedRef) => groups[g].room = CurrentKey(state)]_vars

\* Nothing is pending: no activation awaits identity, no push has writes
\* left and no listener holds an undelivered snapshot.
Quiescent ==
  /\ pushes = <<>>
  /\ \A g \in Groups : groups[g].status # "auth"
  /\ \A g \in LiveGroups, n \in ListenerNameSet : groups[g].q[n] = <<>>

\* The user has stopped acting and the view is mounted.
NoFurtherUserAction == acts = MaxUserActs /\ phase = "run"

\* A key is configured and the only listener group there is (awaited or
\* live) is the one of that key.
SingleSubscription ==
  /\ CurrentKey(state) # <<>>
  /\ Cardinality({g \in Groups : groups[g].status # "free"}) = 1
  /\ \A g \in Groups : groups[g].status # "free" => groups[g].room = CurrentKey(state)

HasRecords(s) == \E n \in NameSet : \E i \in 1..Len(s[n]) : s[n][i].id # ""

\* C4: with a key configured and a non-empty collection, the pushes and
\* the dispatches they echo back come to an end: the adapter reaches a
\* state where nothing is pending.
C4_PushesComeToAnEnd ==
  (NoFurtherUserAction /\ SingleSubscription /\ HasRecords(state)) ~> Quiescent

Has(coll, r) == \E i \in 1..Len(coll) : coll[i] = r

\* C8: a record the user wrote locally, captured by a push that has not
\* yet written it, is in the end present with the written values both in
\* the local collection and in the room's remote collection, whatever
\* snapshot overwrites it on the way.
C8_LocalWriteRestored ==
  \A v \in Values :
    (/\ NoFurtherUserAction /\ SingleSubscription
     /\ Has(state.polishes, Rec("p1", v))
     /\ \E i \in 1..Len(pushes) :
          /\ pushes[i].key = CurrentKey(state)
          /\ Has(pushes[i].writes, [name |-> "polishes", item |-> Rec("p1", v)]))
    ~> (/\ Has(state.polishes, Rec("p1", v))
        /\ CurrentKey(state) \in Rooms
        /\ Rec("p1", v) \in remote[CurrentKey(state)].polishes)

\* The listener groups there are, awaited or live.
Subscriptions == {g \in Groups : groups[g].status # "free"}

\* C2 (as stated): after the one settings/update that set the key from
\* blank to K there is one subscription setup and never more than one
\* settings push.
C2_ExactlyOneSettingsPush ==
  scenario = "keyset" => Cardinality(Subscriptions) = 1 /\ metaWrites <= 1

\* C2: after the one settings/update that set the key from blank to K
\* there is exactly one subscription setup, for room K, with one listener
\* per subscribed collection and nothing written to another room; and once
\* its listeners are open and no push is in flight, at least two settings
\* pushes were made to room K (the activation's and the mirror effect's).
C2_OneSetupTwoSettingsPushes ==
  scenario = "keyset" =>
    /\ Cardinality(Subscriptions) = 1
    /\ \A g \in Subscriptions :
         /\ groups[g].room = CurrentKey(state)
         /\ groups[g].status = "live" => DOMAIN groups[g].q = ListenerNameSet
    /\ \A r \in Rooms \ {CurrentKey(state)} : remote[r] = EmptyRoom
    /\ (LiveGroups # {} /\ pushes = <<>>) => metaWrites >= 2

C2_KeySetAndSettled ==
  /\ scenario = "keyset"
  /\ LiveGroups # {}
  /\ pushes = <<>>
  /\ metaWrites = 2
  /\ remote[CurrentKey(state)].meta # {}

\* C3 (as stated): whenever the configured key is blank no listener is
\* subscribed, and a step taken while it is blank writes nothing to the
\* remote store and dispatches no snapshot.
C3_InertWhenKeyBlank ==
  [][/\ CurrentKey(state') = <<>> => \A g \in Groups : groups'[g].status # "live"
     /\ CurrentKey(state) = <<>> =>
          /\ remote' = remote
          /\ \A g \in Groups, n \in ListenerNameSet : ~(Deliver(g, n) /\ mountedRef)]_vars

\* C5 (as stated): once the view is torn down no listener is subscribed
\* and the state is dispatched into no more.
C5_TeardownReleasesAll ==
  [][/\ phase' = "unmounted" => \A g \in Groups : groups'[g].status # "live"
     /\ phase = "unmounted" => state' = state]_vars

\* C7: a snapshot delivered on the polishes, tools or manis subscription
\* makes that local collection the snapshot's contents and leaves every
\* other field of the state (the other two collections, settings,
\* createdAt) as it was.
C7_SnapshotReplacesItsCollection ==
  [][\A g \in Groups, n \in NameSet :
       (Deliver(g, n) /\ mountedRef) =>
         /\ state'[n] = Head(groups[g].q[n])
         /\ DOMAIN state' = DOMAIN state
         /\ \A f \in DOMAIN state \ {n} : state'[f] = state[f]]_vars

\* The saved polish (without id, never pushed) is gone: the one thing the
\* user did was to set the key, and the room's empty snapshot came in.
C7_EmptySnapshotEmptied ==
  /\ scenario = "keyset"
  /\ acts = 1
  /\ "" \in usedIds
  /\ state.polishes = <<>>
  /\ state.settings.syncKey = Str(KeyHome)
  /\ state.createdAt = 0

\* The last push started.
LastPush(ps) == ps[Len(ps)]

\* C9 (as stated): while a key is configured every change of the local
\* state starts a push that holds every record of the new state's three
\* collections.
C9_EveryChangePushesEveryRecord ==
  [][(state' # state /\ CurrentKey(state') # <<>>) =>
       /\ Len(pushes') = Len(pushes) + 1
       /\ \A n \in NameSet : \A i \in 1..Len(state'[n]) :
            Has(LastPush(pushes').writes, [name |-> n, item |-> state'[n][i]])]_vars

\* The records of a push for one collection, in the order of their writes.
WritesFor(p, n) ==
  LET ws == SelectSeq(p.writes, LAMBDA w : w.name = n)
  IN [i \in 1..Len(ws) |-> ws[i].item]

WithId(coll) == SelectSeq(coll, LAMBDA r : r.id # "")

NameRank(n) == CHOOSE i \in 1..Len(Names) : Names[i] = n

\* C9: while a key K is configured, every change of polishes, tools, manis
\* or settings starts a push for room K that holds, collection by
\* collection and in order, exactly the records of the new state that have
\* a non-empty id, and the new settings without the key; a push upserts its
\* records one by one, each under its id, and writes the settings document
\* only when no record is left.
C9_ChangeStartsFullPush ==
  [][/\ ((\E f \in NameSet \cup {"settings"} : state'[f] # state[f])
           /\ CurrentKey(state') # <<>>) =>
          /\ Len(pushes') = Len(pushes) + 1
          /\ SubSeq(pushes', 1, Len(pushes)) = pushes
          /\ LET p == LastPush(pushes') IN
               /\ p.key = CurrentKey(state')
               /\ \A n \in NameSet : WritesFor(p, n) = WithId(state'[n])
               /\ \A i, j \in 1..Len(p.writes) :
                    i < j => NameRank(p.writes[i].name) <= NameRank(p.writes[j].name)
               /\ p.settings = [state'.settings EXCEPT !.syncKey = Undef]
     /\ \A i \in 1..Len(pushes) :
          PushStep(i) =>
            IF pushes[i].writes # <<>>
            THEN LET w == Head(pushes[i].writes) IN
                   /\ \E d \in remote'[pushes[i].key][w.name] :
                        d.id = w.item.id /\ \A f \in DOMAIN w.item : d[f] = w.item[f]
                   /\ remote'[pushes[i].key].meta = remote[pushes[i].key].meta
            ELSE remote'[pushes[i].key].meta = {[settings |-> pushes[i].settings]}]_vars

\* The push started last holds the state's mani; the saved polish without
\* id is in the state and not in the push.
C9_PushWithoutIdlessRecord ==
  /\ CurrentKey(state) = KeyHome
  /\ state.polishes = <<Rec("", 0)>>
  /\ Len(state.manis) >= 1
  /\ pushes # <<>>
  /\ LastPush(pushes).key = KeyHome
  /\ WritesFor(LastPush(pushes), "polishes") = <<>>
  /\ WritesFor(LastPush(pushes), "manis") = state.manis

RemoteIds(store, r, n) == {d.id : d \in store[r][n]}

\* C10: no step removes a record from the remote store: in every room and
\* collection the set of record ids only grows.
C10_RemoteIdsNeverShrink ==
  [][\A r \in Rooms, n \in NameSet :
       RemoteIds(remote, r, n) \subseteq RemoteIds(remote', r, n)]_vars

\* The polish was deleted locally and the push that followed has run to
\* its end: the room still holds it.
C10_DeletedLocallyKeptRemotely ==
  /\ phase = "run"
  /\ acts >= 1
  /\ CurrentKey(state) = KeyHome
  /\ "p1" \in usedIds
  /\ state.polishes = <<>>
  /\ pushes = <<>>
  /\ "polishes" \notin isInit
  /\ \A g \in LiveGroups : groups[g].q["polishes"] # <<>> => Head(groups[g].q["polishes"]) # <<>>
  /\ "p1" \in RemoteIds(remote, KeyHome, "polishes")

\* The settings documents the remote store holds, in any room.
RemoteSettings == {d.settings : d \in UNION {remote[r].meta : r \in Rooms}}

\* C11: every settings value written to a room's settings document, by an
\* activation or by a push, has no syncKey, and none of its fields holds a
\* household key.
C11_RemoteSettingsCarryNoKey ==
  \A s \in RemoteSettings :
    /\ s.syncKey = Undef
    /\ \A f \in DOMAIN s : s[f].t = "str" => Trim(s[f].s) \notin Rooms

\* The key is configured locally, and both the activation and a push have
\* written the room's settings document.
C11_SettingsWrittenUnderKey ==
  /\ scenario = "keyset"
  /\ state.settings.syncKey = Str(KeyWork)
  /\ metaWrites = 2
  /\ remote[KeyWork].meta # {}

\* What an activation for a room does, in order: identity, the four
\* subscriptions on the room's collections, the settings push to the room.
ActivationOrder(room) ==
  <<[op |-> "identity", path |-> <<>>],
    [op |-> "listen", path |-> <<"rooms", room, "polishes">>],
    [op |-> "listen", path |-> <<"rooms", room, "tools">>],
    [op |-> "listen", path |-> <<"rooms", room, "manis">>],
    [op |-> "listen", path |-> <<"rooms", room, "meta">>],
    [op |-> "push", path |-> <<"rooms", room, "meta", "settings">>]>>

\* C12: an activation starts, for the key that became non-blank, by
\* awaiting identity and holds no subscription while it waits; when it
\* resumes it has opened the subscriptions on polishes, tools, manis and
\* meta of that key's room, in this order and before its settings push,
\* and the push has written the settings document of that room and
\* nothing else.
C12_ActivationInOrder ==
  [][\A g \in Groups :
       /\ (groups'[g].status = "auth" /\ groups[g].status # "auth") =>
            /\ CurrentKey(state') # <<>>
            /\ groups'[g].room = CurrentKey(state')
       /\ groups'[g].status = "auth" => "q" \notin DOMAIN groups'[g]
       /\ groups'[g].status = "live" =>
            /\ groups'[g].log = ActivationOrder(groups'[g].room)
            /\ DOMAIN groups'[g].q = ListenerNameSet
       /\ (groups'[g].status = "live" /\ groups[g].status # "live") =>
            /\ groups[g].status = "auth"
            /\ groups'[g].room = groups[g].room
            /\ remote'[groups[g].room].meta =
                 {[settings |-> [groups[g].settings EXCEPT !.syncKey = Undef]]}
            /\ \A n \in NameSet : remote'[groups[g].room][n] = remote[groups[g].room][n]
            /\ \A r \in Rooms \ {groups[g].room} : remote'[r] = remote[r]]_vars

\* An activation for the second household has run to its end and its
\* unsubscribe is the one unsubRef holds.
C12_ActivationCompleted ==
  \E g \in Groups :
    /\ groups[g].status = "live"
    /\ groups[g].room = KeyWork
    /\ CurrentKey(state) = KeyWork
    /\ unsubRef = g
    /\ Len(groups[g].log) = 6
    /\ remote[KeyWork].meta # {}

\* The action dispatched last without sync.
LastAction == trail[Len(trail)]

\* C13: an {entity}/update whose payload has the id that the action just
\* before it, an {entity}/delete, removed leaves the state as the delete
\* left it: the record is not created again.
C13_UpdateAfterDeleteIsNoOp ==
  [][\A n \in NameSet : \A id \in LocalIds[n], v \in Values :
       (/\ trail # <<>>
        /\ LastAction = [type |-> Entity[n] \o "/delete", id |-> id]
        /\ n \notin nullColls
        /\ LocalUpdate(n, id, v)) => state' = state]_vars

\* The saved polish p1 was deleted and then updated: there is no polish,
\* and the saved tool is there as before.
C13_DeletedThenUpdated ==
  /\ trail = <<[type |-> "polish/delete", id |-> "p1"],
               [type |-> "polish/update", payload |-> Rec("p1", 1)]>>
  /\ state.polishes = <<>>
  /\ state.tools = <<Rec("t1", 0)>>
  /\ ~threw

\* C14: a hydrate/partial whose payload is the one of the hydrate/partial
\* dispatched just before it leaves the state as it is.
C14_HydratePartialIdempotent ==
  [][\A n \in NameSet : \A items \in {<<>>, <<Rec("p1", 1)>>} :
       (/\ trail # <<>>
        /\ LastAction = [type |-> "hydrate/partial", payload |-> [f \in {n} |-> items]]
        /\ LocalHydratePartial(n, items)) => state' = state]_vars

\* The same snapshot of one polish was dispatched twice over the saved
\* state; the state holds it once.
C14_SamePayloadTwice ==
  /\ trail = <<[type |-> "hydrate/partial", payload |-> [polishes |-> <<Rec("p1", 1)>>]],
               [type |-> "hydrate/partial", payload |-> [polishes |-> <<Rec("p1", 1)>>]]>>
  /\ state.polishes = <<Rec("p1", 1)>>
  /\ state.tools = <<Rec("t1", 0)>>

\* C15: an {entity}/add makes the collection the new record followed by
\* the collection as it was, and changes no other field of the state.
C15_AddPutsRecordFirst ==
  [][\A n \in NameSet : \A id \in LocalIds[n], v \in Values :
       (LocalAdd(n, id, v) /\ n \notin nullColls) =>
         /\ Len(state'[n]) = Len(state[n]) + 1
         /\ state'[n][1] = Rec(id, v)
         /\ \A i \in 1..Len(state[n]) : state'[n][i + 1] = state[n][i]
         /\ DOMAIN state' = DOMAIN state
         /\ \A f \in DOMAIN state \ {n} : state'[f] = state[f]]_vars

\* A polish was added to the saved state: it stands before the saved one.
C15_AddedBeforeSaved ==
  /\ trail = <<[type |-> "polish/add", payload |-> Rec("p2", 1)]>>
  /\ state.polishes = <<Rec("p2", 1), Rec("p1", 0)>>
  /\ state.tools = <<Rec("t1", 0)>>

\* The label generated for the wall at index i (from 0): A..Z, then W27, ...
GeneratedLabel(i) ==
  IF i < 26 THEN Str(<<Letters[i + 1]>>) ELSE Str(<<"W">> \o NatToStr(i + 1))

\* Whether names holds at index i (from 0) a string that is not blank.
NamePresent(names, i) ==
  /\ names.t = "arr"
  /\ i < Len(names.a)
  /\ names.a[i + 1].t = "str"
  /\ Trim(names.a[i + 1].s) # <<>>

\* C16 (as stated): settings/update merges the payload into the settings
\* and normalizes: wallNames has as many names as the new wallCount, and
\* at each index the merged settings' name, trimmed, when it is there and
\* not blank, and the generated label otherwise; on the defaults,
\* wallCount 3 gives the names A, B, C.
C16_UpdateNormalizesWallNames ==
  [][\A payload \in SettingsPayloads :
       LocalSettingsUpdate(payload) =>
         LET merged == Merge(state.settings, payload)
             names == state'.settings.wallNames.a
         IN /\ state'.settings.wallCount = Int2Num(Len(names))
            /\ \A i \in 0..(Len(names) - 1) :
                 names[i + 1] = IF NamePresent(merged.wallNames, i)
                                THEN Str(Trim(merged.wallNames.a[i + 1].s))
                                ELSE GeneratedLabel(i)
            /\ (state.settings = defaultSettings /\ payload = [wallCount |-> Int2Num(3)]) =>
                 names = <<Str(<<"A">>), Str(<<"B">>), Str(<<"C">>)>>]_vars

\* C17 (as stated): no action makes the reducer throw, in any state that
\* hydrate, hydrate/partial and the other actions lead to.
C17_ReducerNeverThrows == ~threw

\* C18 (as stated): exporting the state, importing the exported file and
\* booting from the entry the import stored gives the exported state.
C18_ExportImportRoundTrip ==
  (phase = "run" /\ ~threw) =>
    LET exported == Stringify(state, nullColls)
        entry == JsonText(exported.v)
    IN /\ Hydrated(entry.v) = state
       /\ entry.v.nulls \cap NameSet = nullColls

\* C19: an import of a file that does not parse shows the alert and
\* leaves the stored entry, the state and the page as they are; an import
\* of a file that parses makes the file's text the stored entry and
\* reloads the page.
C19_ImportFailureChangesNothing ==
  [][\A f \in {BadText, file, JsonText(BlobEdited)} :
       ImportData(f) =>
         IF f.kind = "json"
         THEN /\ storage' = f
              /\ phase' = "boot"
              /\ alerted' = alerted
         ELSE /\ alerted'
              /\ storage' = storage
              /\ state' = state
              /\ nullColls' = nullColls
              /\ phase' = "run"]_vars

\* A file that does not parse was chosen over the saved state: the alert
\* was shown, and state and entry are the saved ones.
C19_BadFileRefused ==
  /\ trail = <<[type |-> "import", file |-> BadText]>>
  /\ alerted
  /\ phase = "run"
  /\ state.polishes = <<Rec("p1", 0)>>
  /\ storage = Stringify(state, nullColls)

\* What boot makes of a stored entry: the parsed value's fields over
\* initialState's, the settings normalized.
BootState(text) ==
  IF text.kind # "json" THEN initialState
  ELSE LET fields == text.v.fields
           given == "settings" \in DOMAIN fields /\ "settings" \notin text.v.nulls
       IN [f \in DOMAIN initialState \cup DOMAIN fields |->
             IF f = "settings"
             THEN normalizeSettings(IF given THEN Obj(fields.settings)
                                    ELSE IF "settings" \in DOMAIN fields THEN Obj(<<>>)
                                    ELSE Obj(defaultSettings))
             ELSE IF f \in DOMAIN fields THEN fields[f] ELSE initialState[f]]

\* C20: boot from an entry that is present and parses gives the parsed
\* value merged over the defaults with its settings normalized; boot from
\* no entry, or from one that does not parse, gives the defaults; in
\* either case the application runs.
C20_BootFromStorage ==
  [][/\ (LocalBoot /\ storage.kind # "json") =>
          /\ state' = BootState(storage)
          /\ phase' = "run"
          /\ ~threw'
     /\ (LocalBoot /\ storage.kind = "json") => loaded' = storage
     /\ LocalHydrate =>
          /\ state' = BootState(loaded)
          /\ phase' = "run"
          /\ ~threw']_vars

\* The application runs on the hand-edited backup: its polish, three
\* walls, and the name it gave trimmed.
C20_BootedFromEditedBlob ==
  /\ phase = "run"
  /\ trail = <<>>
  /\ state.polishes = <<Rec("p2", 1)>>
  /\ state.settings.wallCount = Int2Num(3)
  /\ state.settings.wallNames = Arr(<<Str(<<"K">>), Str(<<"B">>), Str(<<"C">>)>>)
  /\ state.createdAt = 1

\* C21: once a state change (a local action, the boot hydration, a
\* hydrate/partial as a listener dispatches it) is processed and the write
\* succeeded, the stored entry is the text of the whole current state; a
\* write that fails leaves the entry as it was and the state as the reducer
\* made it, and nothing writes again until the state changes again.
C21_StorageHoldsState ==
  [][/\ (phase' \in {"hydrating", "run"} /\ ~saveFailed') =>
          storage' = Stringify(state', nullColls')
     /\ saveFailed' => storage' = storage
     /\ (trail' # trail /\ ~threw' /\ trail'[Len(trail')].type \in KnownTypes) =>
          state' = reducer(state, trail'[Len(trail')])
     /\ (trail' # trail /\ trail'[Len(trail')].type \in {"noop", "export"}) =>
          /\ storage' = storage
          /\ saveFailed' = saveFailed
          /\ state' = state]_vars

\* A polish was added to the saved state and the write failed: the state
\* holds the polish, the entry is the one written before, and the export
\* that followed wrote nothing.
C21_FailedWriteNotRetried ==
  /\ trail = <<[type |-> "polish/add", payload |-> Rec("p2", 1)], [type |-> "export"]>>
  /\ saveFailed
  /\ state.polishes = <<Rec("p2", 1), Rec("p1", 0)>>
  /\ storage = Stringify([state EXCEPT !.polishes = <<Rec("p1", 0)>>], nullColls)

\* C27 (as stated): at process start the entry is read before it is first
\* written; the first write stores the default state, which the entry holds
\* until the write that follows the hydrate; and once boot has completed
\* the entry holds the hydrated state again (or, no write having gone
\* through, still the persisted blob): a persisted blob that parses is not
\* lost by booting.
C27_BootKeepsBlob ==
  [][/\ (LocalBoot /\ storage.kind = "json") =>
          /\ loaded' = storage
          /\ storage' \in {Stringify(initialState, {}), storage}
          /\ state' = initialState
     /\ LocalHydrate =>
          /\ state' = Hydrated(loaded.v)
          /\ storage' \in {Stringify(state', nullColls'), loaded}]_vars

\* p.wall && p.shelf && p.position: the polish is on a slot.
HasPlacement(p) ==
  /\ {"wall", "shelf", "position"} \subseteq DOMAIN p
  /\ Truthy(p.wall) /\ Truthy(p.shelf) /\ Truthy(p.position)

SlotOf(p) == <<p.wall, p.shelf, p.position>>

\* No two polishes of the collection are on the same slot.
OnePerSlot(coll) ==
  \A i, j \in 1..Len(coll) :
    (i # j /\ HasPlacement(coll[i]) /\ HasPlacement(coll[j])) => SlotOf(coll[i]) # SlotOf(coll[j])

\* C22 (as stated): a drop of polish X on a slot that polish Y occupies
\* puts X on the slot and Y on the placement X had, and after any drops no
\* slot holds two polishes.
C22_DropOnOccupiedSwaps ==
  [][\A id \in {"p1", "p2", "p3"}, wall \in {WallA, WallB, Str(<<"X">>)} :
       \A shelf \in 1..MaxSide, position \in 1..MaxSide :
         handleDrop(id, wall, shelf, position) =>
           LET slot == <<wall, Int2Num(shelf), Int2Num(position)>>
               X == Find(state.polishes, id)
           IN /\ HasPlacement(Find(state'.polishes, id))
              /\ SlotOf(Find(state'.polishes, id)) = slot
              /\ \A i \in 1..Len(state.polishes) :
                   LET Y == state.polishes[i] IN
                     (Y.id # id /\ HasPlacement(Y) /\ SlotOf(Y) = slot) =>
                       /\ state'.polishes[i].id = Y.id
                       /\ state'.polishes[i].wall = X.wall
                       /\ state'.polishes[i].shelf = X.shelf
                       /\ state'.polishes[i].position = X.position
              /\ (OnePerSlot(state.polishes) => OnePerSlot(state'.polishes))]_vars

\* C23 (as stated): whatever polishes are added, updated and dropped and
\* whatever settings are changed, every polish that has a placement is on
\* a wall of wallNames, a shelf from 1 to shelvesPerWall and a position
\* from 1 to slotsPerShelf.
C23_PlacementsWithinLayout ==
  phase = "run" =>
    \A i \in 1..Len(state.polishes) :
      LET p == state.polishes[i] IN
        HasPlacement(p) =>
          /\ p.wall \in WallsShown(state)
          /\ p.shelf \in {Int2Num(n) : n \in ShelvesShown(state)}
          /\ p.position \in {Int2Num(n) : n \in SlotsShown(state)}

\* C24: in every state that adds with a fresh id, updates, deletes, resets
\* and the snapshots delivered between them lead to, no two records of a
\* collection have the same id.
C24_IdsUniquePerCollection ==
  \A n \in NameSet : \A i, j \in 1..Len(state[n]) :
    i # j => state[n][i].id # state[n][j].id

\* The polish added to the saved one was pushed, and the room's snapshot
\* of both has replaced the local collection (the added one no longer
\* stands first).
C24_TwoRecordsFromSnapshot ==
  /\ state.polishes = <<Rec("p1", 0), Rec("p2", 0)>>
  /\ CurrentKey(state) = KeyHome
  /\ RemoteIds(remote, KeyHome, "polishes") = {"p1", "p2"}
  /\ acts >= 1

HasId(coll, id) == \E i \in 1..Len(coll) : coll[i].id = id

\* The polish is not in the local collection (it was deleted) and the
\* configured room holds its document.
DeletedLocallyLiveRemotely(id) ==
  /\ phase = "run"
  /\ CurrentKey(state) = KeyHome
  /\ id \in usedIds
  /\ ~HasId(state.polishes, id)
  /\ id \in RemoteIds(remote, KeyHome, "polishes")

\* C25: with a key configured, a polish that was deleted locally and whose
\* document is in the room does not stay deleted: a snapshot of the room's
\* polishes puts it back into the local collection.
C25_DeletedRecordComesBack ==
  \A id \in IdsOf.polishes :
    DeletedLocallyLiveRemotely(id) ~> HasId(state.polishes, id)

\* The saved polish was deleted and is in the local collection again,
\* as the room's snapshot holds it.
C25_DeletedAndBack ==
  /\ acts = 1
  /\ "p2" \notin usedIds
  /\ CurrentKey(state) = KeyHome
  /\ state.polishes = <<Rec("p1", 0)>>
  /\ "p1" \in RemoteIds(remote, KeyHome, "polishes")

\* C26: a snapshot delivered on the meta subscription leaves settings,
\* polishes, tools, manis and createdAt as they are; it sets the top-level
\* field meta to the snapshot's documents and nothing else, so the settings
\* document in it is not applied to the local settings; and the delivery
\* starts no push, no subscription and no remote write.
C26_MetaSnapshotSetsOnlyMeta ==
  [][\A g \in Groups :
       Deliver(g, "meta") =>
         /\ \A f \in DOMAIN state \ {"meta"} : f \in DOMAIN state' /\ state'[f] = state[f]
         /\ DOMAIN state' \subseteq DOMAIN state \cup {"meta"}
         /\ mountedRef => state'.meta = Head(groups[g].q["meta"])
         /\ pushes' = pushes
         /\ remote' = remote
         /\ unsubRef' = unsubRef
         /\ \A h \in Groups : groups'[h].status = groups[h].status]_vars

\* The room's settings document was delivered: it is under meta, without
\* the key and with the default wall names, while the local settings hold
\* the key; nothing is in flight.
C26_SettingsDocumentUnderMeta ==
  /\ "meta" \in DOMAIN state
  /\ state.meta = <<[settings |-> [defaultSettings EXCEPT !.syncKey = Undef]]>>
  /\ state.settings = [defaultSettings EXCEPT !.syncKey = Str(KeyHome)]
  /\ pushes = <<>>

=============================================================================
